---- MODULE Spec2Model ----
(***************************************************************************)
(* SafeShipper IoT sensor node (src/hardware/esp32_sensor_node.cpp).       *)
(*                                                                         *)
(* The firmware is one cooperative thread: setup() runs once after every   *)
(* boot, loop() runs for ever after it.  The state below is the firmware's *)
(* globals, the position of that thread (pc), the HTTPClient objects that  *)
(* are begun and not yet ended, and a record of the requests of the        *)
(* current pass (setup, or one loop iteration).  Everything the firmware   *)
(* reads from the outside (WiFi.status(), the ADC, the sensors, the        *)
(* server's answers, the time that passes) is drawn with \E where it is    *)
(* read.                                                                   *)
(*                                                                         *)
(* Units: times are milliseconds.  batteryVoltage is the float of line 345 *)
(* kept exactly, as volts * 10 * 4095 (rawValue * 66), because             *)
(* (rawValue / 4095.0) * 3.3 * 2 is rawValue * 66 / 40950.  quality_score  *)
(* is kept in tenths (10 is 1.0, 5 is 0.5).  A wake timer is the pair of   *)
(* the two factors of `seconds * 1000000ULL`, whose product does not fit   *)
(* the model checker's integers.                                           *)
(***************************************************************************)
EXTENDS Integers, Sequences, FiniteSets, TLC

\* ------------------------------------------------------------- bounds
\* Width of the millisecond counter in the model (the target's unsigned
\* long has 32 bits; the model keeps the modular arithmetic, narrower).
ClockBits == 19
\* The run is followed until this many milliseconds after boot.
MaxUptime == 660000
\* Longest commands list a heartbeat response delivers.
MaxCmds == 2

\* ------------------------------------------------------------- constants
DATA_INTERVAL == 60000
HEARTBEAT_INTERVAL == 300000
\* connectToWiFi's attempt budget
MaxAttempts == 20
\* delay(500) between two polls of the link
PollDelay == 500
\* full scale of analogRead
ADC_MAX == 4095
\* `commandData["duration"] | 300`
DefaultSleep == 300
\* enterDeepSleep's wake period, seconds
LowPowerWake == 3600
\* microseconds per second, the factor 1000000ULL
UsPerSecond == 1000000

ClockMod == 2 ^ ClockBits

\* Time that passes between two reads of millis() at the top of loop():
\* delay(1000) and the blocking calls of the iteration before.
Deltas == {30000, 60000}

\* analogRead(BATTERY_PIN) samples: 2047 is the last raw value below 3.3 V,
\* 2048 the first one not below it.
RawSamples == {2047, 2048}

\* Every value analogRead returns (12 bits)
AllRaw == 0..ADC_MAX

\* A float returned by the DHT driver: <<>> stands for NaN, <<v>> for v.
NaN == <<>>
FloatSamples == {NaN, <<25>>}
isnan(f) == f = NaN

\* The TinyGPS++ object: location.isValid() and satellites.value().
GpsNoFix == [valid |-> FALSE, satellites |-> 0]
GpsSamples == {GpsNoFix, [valid |-> TRUE, satellites |-> 4],
               [valid |-> TRUE, satellites |-> 5]}

\* Raw accelerometer axes.
AccelSamples == {<<0, 0, 16384>>}

\* Commands of a heartbeat response.  duration and interval are the
\* entries of command_data, <<>> when it carries none (the firmware reads
\* duration at line 308 and never reads the interval of update_interval).
CommandSamples ==
  {[command_type |-> "ping", duration |-> <<>>, interval |-> <<>>],
   [command_type |-> "reboot", duration |-> <<>>, interval |-> <<>>],
   [command_type |-> "sleep", duration |-> <<120>>, interval |-> <<>>],
   [command_type |-> "sleep", duration |-> <<>>, interval |-> <<>>],
   [command_type |-> "update_interval", duration |-> <<>>,
    interval |-> <<120000>>],
   [command_type |-> "calibrate", duration |-> <<>>, interval |-> <<>>]}

\* The decoded responseDoc["commands"]: the empty list also stands for a
\* body that does not decode or has no commands list.  A command's id is
\* its position in the list.
Batches == UNION {[1..n -> CommandSamples] : n \in 0..MaxCmds}

TelemetryUrl == "/ingest/sensor-data/"
HeartbeatUrl == "/heartbeat/"
CommandResponseUrl == "/command-response/"

NoTimer == [count |-> 0, unit |-> 0]

\* hbAt before the first heartbeat of a run
NoExchange == -1

VARIABLES
  pc,              \* where the thread is
  caller,          \* "setup" or "loop": who called connectToWiFi / sendHeartbeat
  uptime,          \* milliseconds since boot (the free-running timer)
  currentTime,     \* loop()'s local, the value millis() returned
  lastDataSend,
  lastHeartbeat,
  wifiConnected,
  attempts,        \* connectToWiFi's local
  batteryVoltage,
  gps,
  temperature,     \* sendSensorData's locals
  humidity,
  commands,        \* processCommands' argument
  idx,             \* position of the range-for in commands (0: not iterating)
  http,            \* HTTPClient objects begun and not yet ended, innermost last
  sent,            \* requests POSTed in this pass, in order
  wakeup,          \* the timer set by esp_sleep_enable_timer_wakeup
  \* Observers: nothing in the firmware reads them.
  dataSentAt,      \* uptime at the read of millis() that lastDataSend holds
  hbSentAt,        \* uptime at the read of millis() that lastHeartbeat holds
  dataSkipped,     \* since the timer was set, a due telemetry send was skipped
  hbSkipped,       \* the same for the heartbeat
  spent,           \* milliseconds of delay(500) gone by in this pass
  hbAt             \* uptime + spent at the last POST to /heartbeat/

vars == <<pc, caller, uptime, currentTime, lastDataSend, lastHeartbeat,
          wifiConnected, attempts, batteryVoltage, gps, temperature, humidity,
          commands, idx, http, sent, wakeup,
          dataSentAt, hbSentAt, dataSkipped, hbSkipped, spent, hbAt>>

\* millis(): the timer truncated to the counter's width
millis == uptime % ClockMod

\* (variant: the difference taken in a wider signed type, without the wrap)
USub_Signed(a, b) == a - b

\* a - b in unsigned long arithmetic
USub(a, b) == (a - b) % ClockMod

\* State after a boot: the globals' initialisers (lines 48-54), at the first
\* statement of setup().
Boot ==
  /\ pc = "setup"
  /\ caller = "setup"
  /\ uptime = 0
  /\ currentTime = 0
  /\ lastDataSend = 0
  /\ lastHeartbeat = 0
  /\ wifiConnected = FALSE
  /\ attempts = 0
  /\ batteryVoltage = 0
  /\ gps = GpsNoFix
  /\ temperature = NaN
  /\ humidity = NaN
  /\ commands = <<>>
  /\ idx = 0
  /\ http = <<>>
  /\ sent = <<>>
  /\ wakeup = NoTimer
  /\ dataSentAt = 0
  /\ hbSentAt = 0
  /\ dataSkipped = FALSE
  /\ hbSkipped = FALSE
  /\ spent = 0
  /\ hbAt = NoExchange

Init == Boot

\* ------------------------------------------------------------- helpers
Last(s) == s[Len(s)]
Front(s) == SubSeq(s, 1, Len(s) - 1)

\* HTTPClient http; http.begin(serverURL + endpoint); addHeader x 3
Request(endpoint, body) == [endpoint |-> endpoint, body |-> body]

\* What `sent` keeps of one http.POST: the endpoint, wifiConnected at the
\* call, the outcome fields of a command response (0 and "" otherwise) and
\* how the call ended ("pending" until POST returns).
Posted(endpoint, id, status, message) ==
  [endpoint |-> endpoint, connected |-> wifiConnected, command_id |-> id,
   status |-> status, message |-> message, result |-> "pending"]

\* POST returned: httpResponseCode > 0 or not
Returned(ok) ==
  [sent EXCEPT ![Len(sent)].result = IF ok THEN "ok" ELSE "failed"]

\* readBatteryVoltage(): (rawValue / 4095.0) * 3.3 * 2, in volts * 10 * 4095
Voltage(rawValue) == rawValue * 33 * 2

\* (variant: the threshold taken for the empty bound, 3.0 V)
LowBattery_EmptyBound(v) == v < 30 * ADC_MAX

\* batteryVoltage < 3.3, in the same unit
LowBattery(v) == v < 33 * ADC_MAX

\* (int) of a quotient: towards zero
Trunc(n, d) == IF n >= 0 THEN n \div d ELSE -((-n) \div d)

\* Arduino's constrain(amt, low, high)
constrain(amt, low, high) ==
  IF amt < low THEN low ELSE IF amt > high THEN high ELSE amt

\* (variant: the percentage rounded to the nearest integer)
getBatteryPercentage_Rounds(v) ==
  constrain(Trunc(2 * (v - 30 * ADC_MAX) * 100 + 12 * ADC_MAX,
                  2 * 12 * ADC_MAX), 0, 100)

\* lines 352-356, of the batteryVoltage v that line 349 has just sampled:
\* ((v - 3.0) / (4.2 - 3.0)) * 100, cast to int and constrained.  The
\* quotient is exact here; the float of line 355 lies on the same side of
\* every integer for each of the 4096 raw values (the only exact integer
\* inside 0..100, 80 for rawValue 2457, comes out as 80.00002).
getBatteryPercentage(v) ==
  constrain(Trunc((v - 30 * ADC_MAX) * 100, 12 * ADC_MAX), 0, 100)

\* ------------------------------------------------------------- setup()
\* lines 64-79: hardware and sensors are initialised, connectToWiFi() is called
Setup ==
  /\ pc = "setup"
  /\ pc' = "connectToWiFi"
  /\ caller' = "setup"
  /\ attempts' = 0
  /\ UNCHANGED <<uptime, currentTime, lastDataSend, lastHeartbeat,
                 wifiConnected, batteryVoltage, gps, temperature, humidity,
                 commands, idx, http, sent, wakeup>>

\* ------------------------------------------------------------- connectToWiFi()
\* (variant: the link is polled until it is up, with no budget)
ConnectPoll_NoBudget ==
  /\ pc = "connectToWiFi"
  /\ \E up \in BOOLEAN :
       IF ~up
       THEN /\ attempts' = attempts + 1
            /\ pc' = pc
       ELSE /\ attempts' = attempts
            /\ pc' = "connect_result"
  /\ UNCHANGED <<caller, uptime, currentTime, lastDataSend, lastHeartbeat,
                 wifiConnected, batteryVoltage, gps, temperature, humidity,
                 commands, idx, http, sent, wakeup>>

\* One evaluation of the while condition of line 134; `up` is
\* WiFi.status() == WL_CONNECTED.
ConnectPoll ==
  /\ pc = "connectToWiFi"
  /\ \E up \in BOOLEAN :
       IF ~up /\ attempts < MaxAttempts
       THEN /\ attempts' = attempts + 1
            /\ pc' = pc
       ELSE /\ attempts' = attempts
            /\ pc' = "connect_result"
  /\ UNCHANGED <<caller, uptime, currentTime, lastDataSend, lastHeartbeat,
                 wifiConnected, batteryVoltage, gps, temperature, humidity,
                 commands, idx, http, sent, wakeup>>

\* (variant: a connection that fails restarts the chip)
ConnectResult_RestartOnFailure ==
  /\ pc = "connect_result"
  /\ \E up \in BOOLEAN :
       /\ wifiConnected' = up
       /\ pc' = IF ~up THEN "restart"
                ELSE IF caller = "setup" THEN "sendHeartbeat" ELSE "data"
  /\ attempts' = 0
  /\ UNCHANGED <<caller, uptime, currentTime, lastDataSend, lastHeartbeat,
                 batteryVoltage, gps, temperature, humidity,
                 commands, idx, http, sent, wakeup>>

\* lines 140-151: the status is read once more and decides wifiConnected;
\* control returns to setup() (line 82) or to loop() (line 104).
ConnectResult ==
  /\ pc = "connect_result"
  /\ \E up \in BOOLEAN : wifiConnected' = up
  /\ attempts' = 0
  /\ pc' = IF caller = "setup" THEN "sendHeartbeat" ELSE "data"
  /\ UNCHANGED <<caller, uptime, currentTime, lastDataSend, lastHeartbeat,
                 batteryVoltage, gps, temperature, humidity,
                 commands, idx, http, sent, wakeup>>

\* ------------------------------------------------------------- sendSensorData()
Reading(type, value, unit, quality) ==
  [sensor_type |-> type, value |-> value, unit |-> unit,
   quality_score |-> quality]

\* (variant: a fix of exactly 4 satellites scored as a good one)
Collect_AtLeastFour(t, h, g, a) ==
  (IF ~isnan(t) THEN <<Reading("temperature", t, "C", 10)>> ELSE <<>>) \o
  (IF ~isnan(h) THEN <<Reading("humidity", h, "%", 10)>> ELSE <<>>) \o
  (IF g.valid
   THEN <<Reading("location", <<0>>, "gps",
                  IF g.satellites >= 4 THEN 10 ELSE 5)>>
   ELSE <<>>) \o
  <<Reading("acceleration", a, "g", 10)>>

\* lines 161-216: the readings array.  t and h are the DHT's floats, g the
\* GPS object, a the raw axes (the reading's value, the norm of a / 16384,
\* is kept as the axes it is computed from).
Collect(t, h, g, a) ==
  (IF ~isnan(t) THEN <<Reading("temperature", t, "C", 10)>> ELSE <<>>) \o
  (IF ~isnan(h) THEN <<Reading("humidity", h, "%", 10)>> ELSE <<>>) \o
  (IF g.valid
   THEN <<Reading("location", <<0>>, "gps",
                  IF g.satellites > 4 THEN 10 ELSE 5)>>
   ELSE <<>>) \o
  <<Reading("acceleration", a, "g", 10)>>

\* (variant: the interval compared with > instead of >=)
DataDue_Strict ==
  USub(currentTime, lastDataSend) > DATA_INTERVAL /\ wifiConnected

\* lines 105-106 of loop(): is sendSensorData() called
DataDue == USub(currentTime, lastDataSend) >= DATA_INTERVAL /\ wifiConnected

\* lines 104-110 and 154-229: the trigger, the collection and, when the
\* array is not empty, the request up to http.POST
SendSensorData ==
  /\ pc = "data"
  /\ IF DataDue
     THEN \E t \in FloatSamples, h \in FloatSamples, a \in AccelSamples :
            LET readings == Collect(t, h, gps, a) IN
            IF Len(readings) > 0
            THEN /\ temperature' = t
                 /\ humidity' = h
                 /\ http' = Append(http, Request(TelemetryUrl, readings))
                 /\ sent' = Append(sent, Posted(TelemetryUrl, 0, "", ""))
                 /\ pc' = "data_post"
                 /\ UNCHANGED lastDataSend
            ELSE /\ lastDataSend' = currentTime
                 /\ pc' = "heartbeat"
                 /\ UNCHANGED <<temperature, humidity, http, sent>>
     ELSE /\ pc' = "heartbeat"
          /\ UNCHANGED <<temperature, humidity, http, sent, lastDataSend>>
  /\ UNCHANGED <<caller, uptime, currentTime, lastHeartbeat, wifiConnected,
                 attempts, batteryVoltage, gps, commands, idx, wakeup>>

\* (variant: the timer is reset only when the POST succeeded, so that a
\* failed batch is tried again in the next iteration)
SensorDataPosted_RetryOnFailure ==
  /\ pc = "data_post"
  /\ \E ok \in BOOLEAN :
       /\ sent' = Returned(ok)
       /\ lastDataSend' = IF ok THEN currentTime ELSE lastDataSend
  /\ http' = Front(http)
  /\ temperature' = NaN
  /\ humidity' = NaN
  /\ pc' = "heartbeat"
  /\ UNCHANGED <<caller, uptime, currentTime, lastHeartbeat, wifiConnected,
                 attempts, batteryVoltage, gps, commands, idx, wakeup>>

\* lines 229-241 and 108: POST returns, the response is logged, http.end(),
\* and back in loop() lastDataSend = currentTime
SensorDataPosted ==
  /\ pc = "data_post"
  /\ \E ok \in BOOLEAN : sent' = Returned(ok)
  /\ http' = Front(http)
  /\ lastDataSend' = currentTime
  /\ temperature' = NaN
  /\ humidity' = NaN
  /\ pc' = "heartbeat"
  /\ UNCHANGED <<caller, uptime, currentTime, lastHeartbeat, wifiConnected,
                 attempts, batteryVoltage, gps, commands, idx, wakeup>>

\* ------------------------------------------------------------- sendHeartbeat()
\* lines 113-114 of loop(): is sendHeartbeat() called
HeartbeatDue ==
  USub(currentTime, lastHeartbeat) >= HEARTBEAT_INTERVAL /\ wifiConnected

\* (variant: the timer assigned outside `if (wifiConnected)`, so that a
\* heartbeat skipped for the link is not made up for)
HeartbeatCheck_ResetsOnSkip ==
  /\ pc = "heartbeat"
  /\ pc' = IF HeartbeatDue THEN "sendHeartbeat" ELSE "power"
  /\ lastHeartbeat' =
       IF USub(currentTime, lastHeartbeat) >= HEARTBEAT_INTERVAL
          /\ ~wifiConnected
       THEN currentTime ELSE lastHeartbeat
  /\ UNCHANGED <<caller, uptime, currentTime, lastDataSend,
                 wifiConnected, attempts, batteryVoltage, gps, temperature,
                 humidity, commands, idx, http, sent, wakeup>>

\* lines 112-118: the trigger
HeartbeatCheck ==
  /\ pc = "heartbeat"
  /\ pc' = IF HeartbeatDue THEN "sendHeartbeat" ELSE "power"
  /\ UNCHANGED <<caller, uptime, currentTime, lastDataSend, lastHeartbeat,
                 wifiConnected, attempts, batteryVoltage, gps, temperature,
                 humidity, commands, idx, http, sent, wakeup>>

\* lines 244-273: the status document (getBatteryPercentage() samples the
\* battery into batteryVoltage) and the request up to http.POST
SendHeartbeatFrom(samples) ==
  /\ pc = "sendHeartbeat"
  /\ \E rawValue \in samples : batteryVoltage' = Voltage(rawValue)
  /\ http' = Append(http, Request(HeartbeatUrl,
         <<[battery_level |-> getBatteryPercentage(batteryVoltage')]>>))
  /\ sent' = Append(sent, Posted(HeartbeatUrl, 0, "", ""))
  /\ pc' = "heartbeat_post"
  /\ UNCHANGED <<caller, uptime, currentTime, lastDataSend, lastHeartbeat,
                 wifiConnected, attempts, gps, temperature, humidity,
                 commands, idx, wakeup>>

SendHeartbeat == SendHeartbeatFrom(RawSamples)

\* (variant: the body is decoded whatever code POST returned)
HeartbeatResponse_IgnoresCode ==
  /\ pc = "heartbeat_post"
  /\ \E ok \in BOOLEAN, batch \in Batches :
       /\ sent' = Returned(ok)
       /\ IF Len(batch) > 0
          THEN /\ commands' = batch
               /\ idx' = 1
               /\ pc' = "processCommands"
          ELSE /\ pc' = "heartbeat_end"
               /\ UNCHANGED <<commands, idx>>
  /\ UNCHANGED <<caller, uptime, currentTime, lastDataSend, lastHeartbeat,
                 wifiConnected, attempts, batteryVoltage, gps, temperature,
                 humidity, http, wakeup>>

\* lines 273-288: POST returns; on a positive code the body is decoded and
\* a non-empty commands list goes to processCommands()
HeartbeatResponse ==
  /\ pc = "heartbeat_post"
  /\ \E ok \in BOOLEAN, batch \in Batches :
       /\ sent' = Returned(ok)
       /\ IF ok /\ Len(batch) > 0
          THEN /\ commands' = batch
               /\ idx' = 1
               /\ pc' = "processCommands"
          ELSE /\ pc' = "heartbeat_end"
               /\ UNCHANGED <<commands, idx>>
  /\ UNCHANGED <<caller, uptime, currentTime, lastDataSend, lastHeartbeat,
                 wifiConnected, attempts, batteryVoltage, gps, temperature,
                 humidity, http, wakeup>>

\* (variant: the timer is reset only when the POST succeeded, so that a
\* failed heartbeat is tried again in the next iteration)
HeartbeatEnd_RetryOnFailure ==
  /\ pc = "heartbeat_end"
  /\ http' = Front(http)
  /\ commands' = <<>>
  /\ idx' = 0
  /\ IF caller = "setup"
     THEN /\ pc' = "loop"
          /\ UNCHANGED lastHeartbeat
     ELSE /\ pc' = "power"
          /\ LET hb == SelectSeq(sent, LAMBDA e : e.endpoint = HeartbeatUrl)
             IN  lastHeartbeat' = IF hb[1].result = "ok" THEN currentTime
                                  ELSE lastHeartbeat
  /\ UNCHANGED <<caller, uptime, currentTime, lastDataSend, wifiConnected,
                 attempts, batteryVoltage, gps, temperature, humidity, sent,
                 wakeup>>

\* (variant: the timer is reset only by a heartbeat that brought commands)
HeartbeatEnd_ResetOnCommands ==
  /\ pc = "heartbeat_end"
  /\ http' = Front(http)
  /\ commands' = <<>>
  /\ idx' = 0
  /\ IF caller = "setup"
     THEN /\ pc' = "loop"
          /\ UNCHANGED lastHeartbeat
     ELSE /\ pc' = "power"
          /\ lastHeartbeat' = IF commands # <<>> THEN currentTime
                               ELSE lastHeartbeat
  /\ UNCHANGED <<caller, uptime, currentTime, lastDataSend, wifiConnected,
                 attempts, batteryVoltage, gps, temperature, humidity, sent,
                 wakeup>>

\* line 290, then the caller: setup() ends (lines 84-85) and loop() starts,
\* or loop() goes on with lastHeartbeat = currentTime (line 116)
HeartbeatEnd ==
  /\ pc = "heartbeat_end"
  /\ http' = Front(http)
  /\ commands' = <<>>
  /\ idx' = 0
  /\ IF caller = "setup"
     THEN /\ pc' = "loop"
          /\ UNCHANGED lastHeartbeat
     ELSE /\ pc' = "power"
          /\ lastHeartbeat' = currentTime
  /\ UNCHANGED <<caller, uptime, currentTime, lastDataSend, wifiConnected,
                 attempts, batteryVoltage, gps, temperature, humidity, sent,
                 wakeup>>

\* ------------------------------------------------------------- processCommands()
\* (variant: the final else answers like update_interval)
OutcomeStatus_ElseExecuted(commandType) ==
  CASE commandType = "ping" -> "executed"
    [] commandType = "reboot" -> "acknowledged"
    [] commandType = "sleep" -> "acknowledged"
    [] OTHER -> "executed"

\* lines 301-317: the outcome each command type is answered with
OutcomeStatus(commandType) ==
  CASE commandType = "ping" -> "executed"
    [] commandType = "reboot" -> "acknowledged"
    [] commandType = "sleep" -> "acknowledged"
    [] commandType = "update_interval" -> "executed"
    [] OTHER -> "failed"

OutcomeMessage(commandType) ==
  CASE commandType = "ping" -> "pong"
    [] commandType = "reboot" -> "rebooting"
    [] commandType = "sleep" -> "entering sleep mode"
    [] commandType = "update_interval" -> "interval updated"
    [] OTHER -> "unknown command"

\* (variant: a missing duration read as 0, as `.as<int>()` would)
SleepTime_NoDefault(duration) == IF duration = <<>> THEN 0 ELSE duration[1]

\* line 308: int sleepTime = commandData["duration"] | 300
SleepTime(duration) == IF duration = <<>> THEN DefaultSleep ELSE duration[1]

\* (variant: reboot restarts before its outcome is sent)
ProcessCommand_RestartFirst ==
  /\ pc = "processCommands"
  /\ idx \in 1..Len(commands)
  /\ LET type == commands[idx].command_type
         outcome == [command_id |-> idx, status |-> OutcomeStatus(type),
                     message |-> OutcomeMessage(type)]
     IN IF type = "reboot"
        THEN /\ pc' = "restart"
             /\ UNCHANGED <<http, sent>>
        ELSE /\ http' = Append(http, Request(CommandResponseUrl, <<outcome>>))
             /\ sent' = Append(sent, Posted(CommandResponseUrl, idx,
                                            outcome.status, outcome.message))
             /\ pc' = "response_post"
  /\ UNCHANGED <<caller, uptime, currentTime, lastDataSend, lastHeartbeat,
                 wifiConnected, attempts, batteryVoltage, gps, temperature,
                 humidity, commands, idx, wakeup>>

\* lines 294-316 and 321-339: the next command of the list is dispatched
\* and its outcome goes out, up to http.POST of sendCommandResponse()
ProcessCommand ==
  /\ pc = "processCommands"
  /\ idx \in 1..Len(commands)
  /\ LET type == commands[idx].command_type
         outcome == [command_id |-> idx, status |-> OutcomeStatus(type),
                     message |-> OutcomeMessage(type)]
     IN /\ http' = Append(http, Request(CommandResponseUrl, <<outcome>>))
        /\ sent' = Append(sent, Posted(CommandResponseUrl, idx,
                                       outcome.status, outcome.message))
  /\ pc' = "response_post"
  /\ UNCHANGED <<caller, uptime, currentTime, lastDataSend, lastHeartbeat,
                 wifiConnected, attempts, batteryVoltage, gps, temperature,
                 humidity, commands, idx, wakeup>>

\* (variant: a failed outcome transmission ends the list)
NextCommand_StopOnFailure ==
  /\ pc' = IF idx < Len(commands) /\ Last(sent').result = "ok"
           THEN "processCommands" ELSE "heartbeat_end"
  /\ idx' = IF idx < Len(commands) /\ Last(sent').result = "ok"
            THEN idx + 1 ELSE idx
  /\ UNCHANGED wakeup

\* lines 294 and 318: the range-for goes to the next command, or ends and
\* processCommands() returns to line 285
NextCommand ==
  /\ pc' = IF idx < Len(commands) THEN "processCommands" ELSE "heartbeat_end"
  /\ idx' = IF idx < Len(commands) THEN idx + 1 ELSE idx
  /\ UNCHANGED wakeup

\* lines 339-340, then what follows sendCommandResponse() in the branch:
\* ESP.restart() (306), the wake timer and deep sleep (310-311), or the next
\* command
CommandResponsePosted ==
  /\ pc = "response_post"
  /\ \E ok \in BOOLEAN : sent' = Returned(ok)
  /\ http' = Front(http)
  /\ LET cmd == commands[idx] IN
     CASE cmd.command_type = "reboot" ->
            /\ pc' = "restart"
            /\ UNCHANGED <<idx, wakeup>>
       [] cmd.command_type = "sleep" ->
            /\ wakeup' = [count |-> SleepTime(cmd.duration),
                          unit |-> UsPerSecond]
            /\ pc' = "deep_sleep"
            /\ UNCHANGED idx
       [] OTHER -> NextCommand
  /\ UNCHANGED <<caller, uptime, currentTime, lastDataSend, lastHeartbeat,
                 wifiConnected, attempts, batteryVoltage, gps, temperature,
                 humidity, commands>>

\* ------------------------------------------------------------- loop()
\* lines 88-102: millis() is read after the time of the last pass has gone
\* by, the GPS stream is drained into the gps object (a fix, once valid,
\* stays valid), and the link is checked.  `sent` starts a new pass.
LoopTop ==
  /\ pc = "loop"
  /\ \E d \in Deltas :
       /\ uptime + d <= MaxUptime
       /\ uptime' = uptime + d
       /\ currentTime' = millis'
  /\ \E g \in GpsSamples :
       /\ gps.valid => g.valid
       /\ gps' = g
  /\ \E up \in BOOLEAN :
       IF ~up
       THEN /\ wifiConnected' = FALSE
            /\ attempts' = 0
            /\ pc' = "connectToWiFi"
       ELSE /\ wifiConnected' = TRUE
            /\ attempts' = attempts
            /\ pc' = "data"
  /\ caller' = "loop"
  /\ sent' = <<>>
  /\ UNCHANGED <<lastDataSend, lastHeartbeat, batteryVoltage, temperature,
                 humidity, commands, idx, http, wakeup>>

\* line 121: readBatteryVoltage()
ReadBatteryFrom(samples) ==
  /\ pc = "power"
  /\ \E rawValue \in samples : batteryVoltage' = Voltage(rawValue)
  /\ pc' = "power_check"
  /\ UNCHANGED <<caller, uptime, currentTime, lastDataSend, lastHeartbeat,
                 wifiConnected, attempts, gps, temperature, humidity,
                 commands, idx, http, sent, wakeup>>

ReadBattery == ReadBatteryFrom(RawSamples)

\* (variant: the alert document is sent before the sleep)
enterDeepSleep_SendsAlert ==
  /\ \E rawValue \in RawSamples : batteryVoltage' = Voltage(rawValue)
  /\ wakeup' = [count |-> LowPowerWake, unit |-> UsPerSecond]
  /\ pc' = "deep_sleep"
  /\ sent' = Append(sent, [Posted(TelemetryUrl, 0, "", "")
                           EXCEPT !.result = "ok"])
  /\ UNCHANGED http

\* lines 373-385: the alert document is built (getBatteryPercentage()
\* samples the battery again) and never sent; the timer is set and the
\* device sleeps
enterDeepSleep ==
  /\ \E rawValue \in RawSamples : batteryVoltage' = Voltage(rawValue)
  /\ wakeup' = [count |-> LowPowerWake, unit |-> UsPerSecond]
  /\ pc' = "deep_sleep"
  /\ UNCHANGED <<http, sent>>

\* lines 122-126: deep sleep on a low battery, else delay(1000) and the
\* next iteration
PowerCheck ==
  /\ pc = "power_check"
  /\ IF LowBattery(batteryVoltage)
     THEN enterDeepSleep
     ELSE /\ pc' = "loop"
          /\ UNCHANGED <<batteryVoltage, wakeup, http, sent>>
  /\ UNCHANGED <<caller, uptime, currentTime, lastDataSend, lastHeartbeat,
                 wifiConnected, attempts, gps, temperature, humidity,
                 commands, idx>>

\* ------------------------------------------------------------- boot
\* The chip starts again from its reset vector: every global has its
\* initialiser again and setup() runs.
PowerOn ==
  /\ pc' = "setup"
  /\ caller' = "setup"
  /\ uptime' = 0
  /\ currentTime' = 0
  /\ lastDataSend' = 0
  /\ lastHeartbeat' = 0
  /\ wifiConnected' = FALSE
  /\ attempts' = 0
  /\ batteryVoltage' = 0
  /\ gps' = GpsNoFix
  /\ temperature' = NaN
  /\ humidity' = NaN
  /\ commands' = <<>>
  /\ idx' = 0
  /\ http' = <<>>
  /\ sent' = <<>>
  /\ wakeup' = NoTimer

\* the wake timer of a deep sleep expires
Wake == pc = "deep_sleep" /\ PowerOn

\* ESP.restart()
Restart == pc = "restart" /\ PowerOn

\* ------------------------------------------------------------- observers
\* uptime is the time of the last read of millis() at line 89 (0 before
\* the first): the two timers are compared with that value only (the
\* other read, line 260, goes into the heartbeat's payload), so the time
\* that goes by inside a pass changes nothing the firmware does.  Stamps
\* follows the true time of the two timers' values: a boot sets both to 0,
\* an assignment of currentTime (which always changes the timer: it is
\* made only when the difference is at least the interval) stamps the time
\* of that read.
\* It also notes a send that lines 106 and 114 skip: the difference has
\* reached the interval and the link is down.
Stamps ==
  /\ dataSentAt' = IF pc' = "setup" THEN 0
                   ELSE IF lastDataSend' # lastDataSend THEN uptime
                   ELSE dataSentAt
  /\ hbSentAt' = IF pc' = "setup" THEN 0
                 ELSE IF lastHeartbeat' # lastHeartbeat THEN uptime
                 ELSE hbSentAt
  /\ dataSkipped' =
       IF pc' = "setup" \/ lastDataSend' # lastDataSend THEN FALSE
       ELSE IF /\ pc = "data"
               /\ USub(currentTime, lastDataSend) >= DATA_INTERVAL
               /\ ~wifiConnected
       THEN TRUE
       ELSE dataSkipped
  /\ hbSkipped' =
       IF pc' = "setup" \/ lastHeartbeat' # lastHeartbeat THEN FALSE
       ELSE IF /\ pc = "heartbeat"
               /\ USub(currentTime, lastHeartbeat) >= HEARTBEAT_INTERVAL
               /\ ~wifiConnected
       THEN TRUE
       ELSE hbSkipped

\* The time inside a pass, for the specification that follows it: every
\* failed poll of connectToWiFi() is a delay(500) (line 135), and
\* sendHeartbeat() POSTs at uptime + spent.  Only these delays are counted
\* (the blocking calls and blinkLED() take time of their own).  spent is
\* cleared where nothing reads it any more in the pass.
Timed ==
  /\ spent' = IF pc' \in {"setup", "power"} \/ pc \in {"loop", "sendHeartbeat"}
              THEN 0
              ELSE IF pc = "connectToWiFi" /\ attempts' = attempts + 1
              THEN spent + PollDelay
              ELSE spent
  /\ hbAt' = IF pc' = "setup" THEN NoExchange
             ELSE IF pc = "sendHeartbeat" THEN uptime + spent
             ELSE hbAt

\* The loop clock only: the time inside a pass is not followed.
Untimed == UNCHANGED <<spent, hbAt>>

Clock == Stamps /\ Untimed

Next ==
  \/ Setup /\ Clock
  \/ ConnectPoll /\ Clock
  \/ ConnectResult /\ Clock
  \/ LoopTop /\ Clock
  \/ SendSensorData /\ Clock
  \/ SensorDataPosted /\ Clock
  \/ HeartbeatCheck /\ Clock
  \/ SendHeartbeat /\ Clock
  \/ HeartbeatResponse /\ Clock
  \/ ProcessCommand /\ Clock
  \/ CommandResponsePosted /\ Clock
  \/ HeartbeatEnd /\ Clock
  \/ ReadBattery /\ Clock
  \/ PowerCheck /\ Clock
  \/ Wake /\ Clock
  \/ Restart /\ Clock

Spec == Init /\ [][Next]_vars

\* The thread always executes its next statement
FairSpec == Spec /\ WF_vars(Next)

RealClock == Stamps /\ Timed

TimedNext ==
  \/ Setup /\ RealClock
  \/ ConnectPoll /\ RealClock
  \/ ConnectResult /\ RealClock
  \/ LoopTop /\ RealClock
  \/ SendSensorData /\ RealClock
  \/ SensorDataPosted /\ RealClock
  \/ HeartbeatCheck /\ RealClock
  \/ SendHeartbeat /\ RealClock
  \/ HeartbeatResponse /\ RealClock
  \/ ProcessCommand /\ RealClock
  \/ CommandResponsePosted /\ RealClock
  \/ HeartbeatEnd /\ RealClock
  \/ ReadBattery /\ RealClock
  \/ PowerCheck /\ RealClock
  \/ Wake /\ RealClock
  \/ Restart /\ RealClock

\* The same program with the time inside a pass followed
SpecTimed == Init /\ [][TimedNext]_vars

\* ------------------------------------------------------------- the battery
\* The two places that use a battery sample, with every raw value: the
\* power step of loop() and the heartbeat of setup().  The start is the
\* power step of a first iteration of loop() in which nothing was due; a
\* low sample leads through the deep sleep and the wake to setup() and its
\* heartbeat.
BatteryInit ==
  /\ pc = "power"
  /\ caller = "loop"
  /\ uptime \in {d \in Deltas : d < DATA_INTERVAL}
  /\ currentTime = uptime
  /\ lastDataSend = 0
  /\ lastHeartbeat = 0
  /\ wifiConnected = FALSE
  /\ attempts = 0
  /\ batteryVoltage \in {Voltage(rawValue) : rawValue \in RawSamples}
  /\ gps = GpsNoFix
  /\ temperature = NaN
  /\ humidity = NaN
  /\ commands = <<>>
  /\ idx = 0
  /\ http = <<>>
  /\ sent = <<>>
  /\ wakeup = NoTimer
  /\ dataSentAt = 0
  /\ hbSentAt = 0
  /\ dataSkipped = FALSE
  /\ hbSkipped = FALSE
  /\ spent = 0
  /\ hbAt = NoExchange

BatteryNext ==
  \/ ReadBatteryFrom(AllRaw) /\ Clock
  \/ PowerCheck /\ Clock
  \/ Wake /\ Clock
  \/ Setup /\ Clock
  \/ ConnectPoll /\ Clock
  \/ ConnectResult /\ Clock
  \/ SendHeartbeatFrom(AllRaw) /\ Clock

SpecBattery == BatteryInit /\ [][BatteryNext]_vars

\* ============================================================= properties
\* The command responses among the requests of this pass, in order
Outcomes == SelectSeq(sent, LAMBDA e : e.endpoint = CommandResponseUrl)

\* This step POSTs a request to `endpoint`
Posts(endpoint) ==
  /\ Len(sent') = Len(sent) + 1
  /\ sent'[Len(sent')].endpoint = endpoint

\* The device sleeps because of its battery / because of a sleep command
AsleepOnLowBattery == pc = "deep_sleep" /\ idx = 0
AsleepOnCommand == pc = "deep_sleep" /\ idx > 0

\* One step of C1_TelemetryIff
C1_TelemetryIff_Step ==
  /\ Posts(TelemetryUrl) =>
       /\ pc = "data"
       /\ (currentTime - lastDataSend) % ClockMod >= DATA_INTERVAL
       /\ wifiConnected
       /\ Len(http') = Len(http) + 1
       /\ Len(Last(http').body) > 0
  /\ ( /\ pc = "data"
       /\ (currentTime - lastDataSend) % ClockMod >= DATA_INTERVAL
       /\ wifiConnected ) => Posts(TelemetryUrl)

C2_OnlyWhileConnected == \A i \in 1..Len(sent) : sent[i].connected

\* C3 as stated: an iteration in which the battery voltage was sampled
\* below 3.3 V ends in deep sleep
C3_LowAlwaysSleeps ==
  ( /\ caller = "loop"
    /\ pc \in {"loop", "restart", "deep_sleep"}
    /\ batteryVoltage < 33 * ADC_MAX ) => pc = "deep_sleep"

\* One step of C3_PowerStepSleeps
C3_PowerStepSleeps_Step ==
  pc = "power_check" =>
    IF batteryVoltage < 33 * ADC_MAX
    THEN /\ pc' = "deep_sleep"
         /\ wakeup' = [count |-> 3600, unit |-> 1000000]
    ELSE pc' = "loop"

\* C3 amended: the voltage sampled at the power step of an iteration decides
\* alone, whatever the timers: below 3.3 V the device enters deep sleep with
\* the 3600 s wake timer in that step, otherwise the next iteration starts
C3_PowerStepSleeps == [][C3_PowerStepSleeps_Step]_vars

\* C3 witness: asleep on a low battery with the telemetry interval elapsed
\* and the heartbeat interval not
C3_Witness ==
  /\ AsleepOnLowBattery
  /\ (currentTime - lastDataSend) % ClockMod >= DATA_INTERVAL
  /\ (currentTime - lastHeartbeat) % ClockMod < HEARTBEAT_INTERVAL

C4_NothingAfterPowerSample_Step ==
  pc \in {"power", "power_check", "deep_sleep"} =>
    /\ Len(sent') <= Len(sent)
    /\ Len(http') <= Len(http)

BatchOver ==
  /\ commands # <<>>
  /\ pc \in {"heartbeat_end", "restart", "deep_sleep"}

\* C5 as stated: when the heartbeat cycle is over every command of the
\* list has exactly one outcome among the requests sent
C5_OneOutcomeEach ==
  BatchOver =>
    \A i \in 1..Len(commands) :
      Cardinality({j \in 1..Len(Outcomes) : Outcomes[j].command_id = i}) = 1

\* Position of the first reboot or sleep command, the length of the list
\* when there is none
FirstFinal ==
  LET final == {i \in 1..Len(commands) :
                  commands[i].command_type \in {"reboot", "sleep"}}
  IN IF final = {} THEN Len(commands)
     ELSE CHOOSE i \in final : \A j \in final : i <= j

\* C5 amended: the commands up to and including the first reboot or sleep
\* command (all of them when there is none) have one outcome each, sent
\* once and in order, whether or not earlier transmissions failed; the
\* commands after a reboot or sleep command have none
C5_OneOutcomeUntilFinal ==
  BatchOver =>
    /\ Len(Outcomes) = FirstFinal
    /\ \A i \in 1..Len(Outcomes) :
         /\ Outcomes[i].command_id = i
         /\ Outcomes[i].result \in {"ok", "failed"}

\* C5 witness: two commands answered, the first transmission failed
C5_Witness ==
  /\ pc = "heartbeat_end"
  /\ Len(commands) = 2
  /\ Len(Outcomes) = 2
  /\ Outcomes[1].result = "failed"

\* One step of C6_SleepAfterAck
C6_SleepAfterAck_Step ==
  /\ ( pc = "response_post" /\ commands[idx].command_type = "sleep" ) =>
      /\ Last(sent).endpoint = CommandResponseUrl
      /\ Last(sent).command_id = idx
      /\ Last(sent).status = "acknowledged"
      /\ pc' = "deep_sleep"
      /\ wakeup' = [count |-> IF commands[idx].duration = <<>> THEN 300
                              ELSE commands[idx].duration[1],
                    unit |-> 1000000]
  /\ ( pc # "deep_sleep" /\ pc' = "deep_sleep" /\ idx' > 0 ) =>
      ( pc = "response_post" /\ commands[idx].command_type = "sleep" )

\* C6: a sleep command's acknowledged outcome has been POSTed when the
\* device goes to sleep, which it does next with the wake timer at the
\* command's duration in seconds (300 when it carries none); the device
\* sleeps on a command in no other way
C6_SleepAfterAck == [][C6_SleepAfterAck_Step]_vars

\* C6 witness: asleep on a sleep command that carries no duration, the
\* timer at the default, the acknowledged outcome sent before
C6_Witness ==
  /\ AsleepOnCommand
  /\ commands[idx].duration = <<>>
  /\ wakeup.count = 300
  /\ Last(sent).status = "acknowledged"

\* One step of C7_RestartAfterAck
C7_RestartAfterAck_Step ==
  /\ ( pc = "response_post" /\ commands[idx].command_type = "reboot" ) =>
      /\ Last(sent).endpoint = CommandResponseUrl
      /\ Last(sent).command_id = idx
      /\ Last(sent).status = "acknowledged"
      /\ pc' = "restart"
  /\ ( pc # "restart" /\ pc' = "restart" ) =>
      ( pc = "response_post" /\ commands[idx].command_type = "reboot" )

\* C7: a reboot command's acknowledged outcome has been POSTed when the
\* device restarts, which it does next whatever the transmission's result;
\* the device restarts in no other way
C7_RestartAfterAck == [][C7_RestartAfterAck_Step]_vars

\* C7 witness: restarting although the outcome's transmission failed
C7_Witness ==
  /\ pc = "restart"
  /\ Last(sent).status = "acknowledged"
  /\ Last(sent).result = "failed"

KnownTypes == {"ping", "reboot", "sleep", "update_interval"}

\* The device state a command may touch
DeviceState ==
  <<lastDataSend, lastHeartbeat, currentTime, uptime, wifiConnected,
    batteryVoltage, gps, wakeup>>

\* One step of C8_UnknownCommand
C8_UnknownCommand_Step ==
  ( /\ pc \in {"processCommands", "response_post"}
    /\ commands[idx].command_type \notin KnownTypes ) =>
    /\ UNCHANGED DeviceState
    /\ pc = "processCommands" =>
         /\ Posts(CommandResponseUrl)
         /\ Last(sent').command_id = idx
         /\ Last(sent').status = "failed"
         /\ Last(sent').message = "unknown command"
         /\ pc' = "response_post"
    /\ pc = "response_post" =>
         pc' \in {"processCommands", "heartbeat_end"}

\* C8: a command of no known type is answered failed / "unknown command",
\* and neither its dispatch nor its answer changes the timers, the link
\* state, the power state or ends the run (the list just goes on)
C8_UnknownCommand == [][C8_UnknownCommand_Step]_vars

\* C8 witness: an unknown command has been answered
C8_Witness ==
  /\ pc \in {"processCommands", "heartbeat_end"}
  /\ Len(sent) > 0
  /\ Last(sent).message = "unknown command"
  /\ Last(sent).status = "failed"

\* What the batch must hold for the samples t, h and the GPS object g
ExpectedKinds(t, h, g) ==
  SelectSeq(<<"temperature", "humidity", "location", "acceleration">>,
            LAMBDA k : CASE k = "temperature" -> t # NaN
                         [] k = "humidity" -> h # NaN
                         [] k = "location" -> g.valid
                         [] OTHER -> TRUE)

\* C9: the batch on its way holds the valid readings and the acceleration,
\* in the order temperature, humidity, location, acceleration, nothing for
\* an invalid sample; every score is 1.0 but the location's, 0.5 up to 4
\* satellites and 1.0 above
C9_BatchContent ==
  pc = "data_post" =>
    LET body == Last(http).body
        kinds == ExpectedKinds(temperature, humidity, gps)
    IN /\ Len(body) = Len(kinds)
       /\ \A i \in 1..Len(body) :
            /\ body[i].sensor_type = kinds[i]
            /\ body[i].sensor_type = "temperature" => body[i].value = temperature
            /\ body[i].sensor_type = "humidity" => body[i].value = humidity
            /\ body[i].quality_score =
                 IF kinds[i] = "location" /\ gps.satellites <= 4 THEN 5 ELSE 10

\* C9 witness: NaN temperature, valid humidity, a fix of 4 satellites
C9_Witness ==
  /\ pc = "data_post"
  /\ temperature = NaN
  /\ humidity # NaN
  /\ gps.valid
  /\ gps.satellites = 4
  /\ Len(Last(http).body) = 3

\* C10: at most one HTTPClient is begun and not yet ended
C10_OneInFlight == Len(http) <= 1

\* ------------------------------------------------------------- C11
\* The run has ended: the chip sleeps or restarts, and setup() runs next
RunEnded == pc \in {"deep_sleep", "restart"}

\* C11 (as written): the run of the loop ends only through a reboot command
C11_OnlyRebootEnds ==
  RunEnded => idx > 0 /\ commands[idx].command_type = "reboot"

C11_EndsOnlyBySleepOrReboot_Step ==
  (~RunEnded /\ RunEnded') =>
    \/ /\ pc = "response_post"
       /\ commands[idx].command_type \in {"reboot", "sleep"}
       /\ pc' = IF commands[idx].command_type = "reboot"
                THEN "restart" ELSE "deep_sleep"
    \/ /\ pc = "power_check"
       /\ LowBattery(batteryVoltage)
       /\ pc' = "deep_sleep"

\* C11 (amended): a step ends the run only when it finishes a reboot
\* command (restart), finishes a sleep command (deep sleep) or checks a
\* battery sample below 3.3 V (deep sleep); no link loss, failed POST,
\* empty command list, invalid sample or other command ends it.
C11_EndsOnlyBySleepOrReboot == [][C11_EndsOnlyBySleepOrReboot_Step]_vars

\* An iteration whose telemetry POST failed and whose heartbeat brought an
\* unknown command has come back to the top of loop().
C11_Witness ==
  /\ pc = "loop"
  /\ caller = "loop"
  /\ Len(sent) >= 3
  /\ sent[1].endpoint = TelemetryUrl
  /\ sent[1].result = "failed"
  /\ Last(sent).endpoint = CommandResponseUrl
  /\ Last(sent).status = "failed"
  /\ Last(sent).result = "failed"

\* ------------------------------------------------------------- C12
C12_NoRetry_Step ==
  /\ pc = "data_post" =>
       /\ lastDataSend' = currentTime
       /\ dataSentAt' = uptime
       /\ http' = Front(http)
       /\ pc' = "heartbeat"
  /\ Posts(TelemetryUrl) => uptime - dataSentAt >= DATA_INTERVAL

\* C12: when a telemetry POST returns, with success or with failure, the
\* telemetry timer is set to the iteration's clock value and the request
\* with its batch is dropped; and a telemetry POST is made only when at
\* least the telemetry interval has gone by since the clock value of the
\* POST before it (since boot, for the first).
C12_NoRetry == [][C12_NoRetry_Step]_vars

\* A telemetry POST made two intervals or more after boot has failed, and
\* the timer holds this iteration's clock value.
C12_Witness ==
  /\ pc = "heartbeat"
  /\ Len(sent) = 1
  /\ sent[1].endpoint = TelemetryUrl
  /\ sent[1].result = "failed"
  /\ uptime >= 2 * DATA_INTERVAL
  /\ lastDataSend = currentTime
  /\ dataSentAt = uptime

\* ------------------------------------------------------------- C13
C13_ApartInTime_Step ==
  (Posts(HeartbeatUrl) /\ hbAt # NoExchange) =>
    (uptime + spent) - hbAt >= HEARTBEAT_INTERVAL

\* C13 (as written): a heartbeat is POSTed at least the heartbeat interval
\* after the heartbeat POSTed before it in the same run, the one of
\* setup() counted.
C13_ApartInTime == [][C13_ApartInTime_Step]_vars

C13_ApartOnLoopClock_Step ==
  /\ (Posts(HeartbeatUrl) /\ caller = "loop") =>
       uptime - hbSentAt >= HEARTBEAT_INTERVAL
  /\ (pc = "heartbeat_end" /\ caller = "loop") =>
       /\ lastHeartbeat' = currentTime
       /\ hbSentAt' = uptime
  /\ (pc = "heartbeat_end" /\ caller = "setup") =>
       /\ lastHeartbeat' = 0
       /\ hbSentAt' = 0

\* C13 (amended): loop() POSTs a heartbeat only when at least the heartbeat
\* interval has gone by, on the clock values loop() reads, since the clock
\* value of the loop()'s heartbeat before it, and since boot for the first;
\* the exchange, failed or not, sets the timer to the iteration's clock
\* value, and the exchange of setup() leaves it at 0.
C13_ApartOnLoopClock == [][C13_ApartOnLoopClock_Step]_vars

\* A heartbeat that loop() POSTed right after its read of the clock has
\* failed, and the timer holds this iteration's clock value.
C13_Witness ==
  /\ pc = "power"
  /\ caller = "loop"
  /\ Len(sent) > 0
  /\ Last(sent).endpoint = HeartbeatUrl
  /\ Last(sent).result = "failed"
  /\ lastHeartbeat = currentTime
  /\ hbSentAt = uptime
  /\ hbAt = uptime

\* ------------------------------------------------------------- C14
C14_ConnectBounded_Step ==
  /\ attempts' <= MaxAttempts
  /\ pc = "connectToWiFi" =>
       \/ pc' = "connectToWiFi" /\ attempts' = attempts + 1
       \/ pc' = "connect_result"
  /\ pc = "connect_result" =>
       pc' = IF caller = "setup" THEN "sendHeartbeat" ELSE "data"
  /\ pc = "loop" =>
       /\ pc' = IF wifiConnected' THEN "data" ELSE "connectToWiFi"
       /\ attempts' = IF wifiConnected' THEN attempts ELSE 0

\* C14: connectToWiFi() counts every further poll of the link and never
\* counts past its budget of 20, so it returns after at most 20 delays;
\* when it returns, connected or not, its caller goes on with its next
\* statement; and every iteration of loop() that finds the link down calls
\* it again with a fresh budget.
C14_ConnectBounded == [][C14_ConnectBounded_Step]_vars

\* loop() has called connectToWiFi() in an iteration after its first, and
\* the budget is used up.
C14_Witness ==
  /\ pc = "connect_result"
  /\ caller = "loop"
  /\ attempts = MaxAttempts
  /\ uptime > DATA_INTERVAL

\* ------------------------------------------------------------- C15, C16
\* How the heartbeat POST of this pass ended ("none": no heartbeat yet)
HeartbeatResult ==
  LET hb == SelectSeq(sent, LAMBDA e : e.endpoint = HeartbeatUrl)
  IN  IF hb = <<>> THEN "none" ELSE hb[1].result

\* C15: in a pass whose heartbeat POST has not returned a success, no
\* commands list is being processed and no outcome has been POSTed.
C15_CommandsOnlyOnSuccess ==
  HeartbeatResult # "ok" =>
    /\ commands = <<>>
    /\ idx = 0
    /\ Outcomes = <<>>
    /\ pc \notin {"processCommands", "response_post"}

\* The heartbeat of an iteration of loop() has failed and sendHeartbeat()
\* is about to return.
C15_Witness ==
  /\ pc = "heartbeat_end"
  /\ caller = "loop"
  /\ HeartbeatResult = "failed"
  /\ Len(http) = 1

C16_NoCommands_Step ==
  /\ (pc = "heartbeat_post" /\ HeartbeatResult' = "ok") =>
       \/ pc' = "processCommands" /\ commands' # <<>>
       \/ /\ pc' = "heartbeat_end"
          /\ commands' = <<>>
          /\ idx' = 0
          /\ Outcomes' = <<>>
  /\ (pc = "heartbeat_end" /\ caller = "loop" /\ Outcomes = <<>>) =>
       /\ lastHeartbeat' = currentTime
       /\ pc' = "power"
       /\ sent' = sent
       /\ http' = <<>>

C17_IntervalRecorded ==
  \A i \in 1..Len(sent) :
    (/\ commands # <<>>
     /\ sent[i].endpoint = CommandResponseUrl
     /\ sent[i].result # "pending"
     /\ commands[sent[i].command_id].command_type = "update_interval") =>
      /\ sent[i].status = "executed"
      /\ <<DATA_INTERVAL>> = commands[sent[i].command_id].interval

\* ------------------------------------------------------------- C18
\* The voltages of the 4096 raw values, in volts * 10 * 4095
SampledVoltages == {rawValue * 66 : rawValue \in 0..4095}

\* The percentage p is the interpolation of the voltage v (in volts * 10 *
\* 4095) between 3.0 V and 4.2 V, cut to an integer and kept within 0..100
InterpolatedAs(v, p) ==
  /\ p \in 0..100
  /\ v <= 30 * 4095 => p = 0
  /\ v >= 42 * 4095 => p = 100
  /\ (v > 30 * 4095 /\ v < 42 * 4095) =>
       /\ p * (42 - 30) * 4095 <= (v - 30 * 4095) * 100
       /\ (p + 1) * (42 - 30) * 4095 > (v - 30 * 4095) * 100

C18_BatteryLevel_Step ==
  /\ pc = "sendHeartbeat" =>
       /\ batteryVoltage' \in SampledVoltages
       /\ InterpolatedAs(batteryVoltage', Last(http').body[1].battery_level)
  /\ pc = "power" =>
       /\ batteryVoltage' \in SampledVoltages
       /\ pc' = "power_check"
  /\ pc = "power_check" =>
       (pc' = "deep_sleep") = (batteryVoltage < 33 * 4095)

\* C18: the battery_level of a heartbeat is the interpolation, between
\* 3.0 V and 4.2 V, of the voltage sampled for it, cut to an integer within
\* 0..100; the power step of an iteration takes a sample of its own, and
\* the iteration ends in deep sleep exactly when that sample's voltage is
\* below 3.3 V.
C18_BatteryLevel == [][C18_BatteryLevel_Step]_vars

\* A heartbeat is under way whose sample, raw 2457, is 3.96 V: level 80.
C18_Witness ==
  /\ pc = "heartbeat_post"
  /\ batteryVoltage = 2457 * 66
  /\ Last(http).body[1].battery_level = 80

\* ------------------------------------------------------------- C20
\* Time gone by, at the read of millis() of this pass, since the read that
\* the timer holds (since boot, while the timer holds its initial 0)
ElapsedData == uptime - dataSentAt
ElapsedHeartbeat == uptime - hbSentAt

\* The two triggers as the pass acts on them, with the link up: the
\* telemetry step POSTs, the heartbeat step calls sendHeartbeat()
TelemetryFires == Posts(TelemetryUrl)
HeartbeatFires == pc' = "sendHeartbeat"

C20_FiresAtInterval_Step ==
  /\ (pc = "data" /\ wifiConnected) =>
       (TelemetryFires <=> ElapsedData >= DATA_INTERVAL)
  /\ (pc = "heartbeat" /\ wifiConnected) =>
       (HeartbeatFires <=> ElapsedHeartbeat >= HEARTBEAT_INTERVAL)

\* C20 (as written): with the link up, a trigger fires in a pass exactly
\* when the time gone by since the last send (since boot, before the
\* first) has reached the interval, whatever the clock did in between.
C20_FiresAtInterval == [][C20_FiresAtInterval_Step]_vars

C20_FiresWithinPeriod_Step ==
  /\ (pc = "data" /\ wifiConnected /\ ElapsedData < ClockMod) =>
       (TelemetryFires <=> ElapsedData >= DATA_INTERVAL)
  /\ (pc = "heartbeat" /\ wifiConnected /\ ElapsedHeartbeat < ClockMod) =>
       (HeartbeatFires <=> ElapsedHeartbeat >= HEARTBEAT_INTERVAL)
  /\ (pc = "data" /\ wifiConnected /\ ElapsedData >= ClockMod) =>
       (TelemetryFires <=> ElapsedData % ClockMod >= DATA_INTERVAL)
  /\ (pc = "heartbeat" /\ wifiConnected /\ ElapsedHeartbeat >= ClockMod) =>
       (HeartbeatFires <=> ElapsedHeartbeat % ClockMod >= HEARTBEAT_INTERVAL)

\* C20 (amended): with the link up, a trigger fires in a pass exactly when
\* the time gone by since the last send has reached the interval, as long
\* as that time is less than one period of the clock, a wrap of the clock
\* in between or not; once a full period has gone by, the trigger counts
\* the time from the end of the last full period.
C20_FiresWithinPeriod == [][C20_FiresWithinPeriod_Step]_vars

\* The clock has wrapped since the last telemetry POST, and the next one
\* is under way exactly one interval after it.
C20_Witness ==
  /\ pc = "data_post"
  /\ currentTime < lastDataSend
  /\ uptime - dataSentAt = DATA_INTERVAL

\* ------------------------------------------------------------- C19
\* The run has been followed up to the bound of the model: loop() is at
\* its top and the next read of millis() lies beyond MaxUptime
Horizon == pc = "loop" /\ \A d \in Deltas : uptime + d > MaxUptime

C19_MadeUpWhenConnected_Step ==
  /\ (pc = "data" /\ ~wifiConnected) => lastDataSend' = lastDataSend
  /\ (pc = "heartbeat" /\ ~wifiConnected) => lastHeartbeat' = lastHeartbeat
  /\ (pc = "data" /\ dataSkipped /\ wifiConnected) => Posts(TelemetryUrl)
  /\ (pc = "heartbeat" /\ hbSkipped /\ wifiConnected) =>
       pc' = "sendHeartbeat"

C19_NotLost_Step ==
  /\ (pc = "data" /\ ~wifiConnected) => lastDataSend' = lastDataSend
  /\ (pc = "heartbeat" /\ ~wifiConnected) => lastHeartbeat' = lastHeartbeat
  /\ (pc = "data" /\ dataSkipped /\ wifiConnected
        /\ ElapsedData < ClockMod) => Posts(TelemetryUrl)
  /\ (pc = "heartbeat" /\ hbSkipped /\ wifiConnected
        /\ ElapsedHeartbeat < ClockMod) => pc' = "sendHeartbeat"

====
